---- MODULE Spec2Model ----
(***************************************************************************)
(* The loan-repayment feature pipeline of data_processing_utils.py and the *)
(* scripts that drive it, as a state machine over a Python object store.   *)
(*                                                                         *)
(* A DataFrame is [cols |-> set of column names, rows |-> sequence of      *)
(* records].  A numeric cell is a one-element tuple <<n>>, a date cell is  *)
(* <<year, month, day>>, and the empty tuple is the missing value (NaN,    *)
(* NaT).  A float is the exact fraction [num, den]; den = 0 is float NaN.  *)
(* Columns that none of the modelled statements reads or writes are left   *)
(* out of the tables.                                                      *)
(***************************************************************************)
EXTENDS Integers, Sequences, FiniteSets, TLC

VARIABLES
    heap,    \* the object store: heap[id] is a DataFrame or a dict of DataFrame ids
    pre,     \* the object store as it was when the last call started
    pc,      \* name of the last function executed, "start" before any call
    arg,     \* the arguments of that call
    ret,     \* id of the object the call returned; None if it returned nothing
    local,   \* id of the table bound to the local `categorized` of the last aggregator call
    exc      \* name of the exception the call raised, "" if none

vars == <<heap, pre, pc, arg, ret, local, exc>>

(***************************************************************************)
(* Bounds of the model.                                                    *)
(***************************************************************************)
MaxDueRows == 4
MaxAggRows == 3
MaxSplitRows == 2
MaxIntervals == 3
MaxMagnitude == 2
MaxMergeRows == 2
MaxDeltaRows == 3
MaxCustomers == 1
MaxFrameRows == 2
MaxFrameIntervals == 2
MaxDuesPerCustomer == 1

(***************************************************************************)
(* Values.                                                                 *)
(***************************************************************************)
None == 0
NaN == <<>>
NaT == <<>>
NaStr == "<NA>"
Val(n) == <<n>>
Float(a, b) == [num |-> a, den |-> b]
FloatNaN == Float(0, 0)
Customers == {Val(1), Val(2)}
TenorTypes == {"PL only", "EMI only"}
Indicators == {Val(0), Val(1), NaN}
ContactTypes == {"CALL", "SMS", "DISPOSITION"}
DummyDates == {<<2023, 1, 1>>, <<2023, 1, 31>>, <<2023, 2, 1>>}

DueCols == {"lan", "due_date", "due_level_tenor_type", "fl_bounce", "fl_bounce_tp3"}

DueRow(lan, date, tenor, fl, tp3) ==
    [lan |-> lan, due_date |-> date, due_level_tenor_type |-> tenor,
     fl_bounce |-> fl, fl_bounce_tp3 |-> tp3]

DispositionCols == {"lan", "created_at", "type"}

DispositionRow(lan, at, type) == [lan |-> lan, created_at |-> at, type |-> type]

Range(s) == {s[i] : i \in DOMAIN s}
SeqsUpTo(S, n) == UNION {[1..k -> S] : k \in 0..n}
Max(S) == CHOOSE x \in S : \A y \in S : y <= x
Min(S) == CHOOSE x \in S : \A y \in S : x <= y

RECURSIVE Sum(_, _)
Sum(f, S) ==
    IF S = {} THEN 0
    ELSE LET x == CHOOSE y \in S : TRUE IN f[x] + Sum(f, S \ {x})

RECURSIVE SortedSeq(_)
SortedSeq(S) ==
    IF S = {} THEN <<>>
    ELSE LET m == Min(S) IN <<m>> \o SortedSeq(S \ {m})

DataFrame(cols, rows) == [cols |-> cols, rows |-> rows]

(***************************************************************************)
(* groupby('lan'): the groups are the distinct non-missing customer ids,   *)
(* in ascending order; rows whose lan is missing belong to no group.       *)
(***************************************************************************)
GroupKeys(rows) ==
    SortedSeq({rows[i].lan[1] : i \in {j \in DOMAIN rows : rows[j].lan # NaN}})

Group(rows, k) == {i \in DOMAIN rows : rows[i].lan = Val(k)}

\* groupby('lan')[...].shift(): the previous row of the same customer, 0 if none
GroupPrev(rows, i) ==
    LET c == {j \in 1..(i - 1) : rows[j].lan = rows[i].lan}
    IN IF rows[i].lan = NaN \/ c = {} THEN 0 ELSE Max(c)

\* groupby('lan')[...].shift(-1): the next row of the same customer, 0 if none
GroupNext(rows, i) ==
    LET c == {j \in (i + 1)..Len(rows) : rows[j].lan = rows[i].lan}
    IN IF rows[i].lan = NaN \/ c = {} THEN 0 ELSE Min(c)

(***************************************************************************)
(* add_streak_features                                                     *)
(***************************************************************************)
is_pl(row) == IF row.due_level_tenor_type = "PL only" THEN 1 ELSE 0

\* df['is_pl'] != df.groupby('lan')['is_pl'].shift(): NaN differs from everything
streak_change(rows, i) ==
    LET p == GroupPrev(rows, i)
    IN p = 0 \/ is_pl(rows[p]) # is_pl(rows[i])

\* (...).cumsum() over the whole table
streak_id(rows, i) == Cardinality({j \in 1..i : streak_change(rows, j)})

\* df.groupby('streak_id').cumcount() + 1, times is_pl
current_pl_streak(rows, i) ==
    (Cardinality({j \in 1..(i - 1) : streak_id(rows, j) = streak_id(rows, i)}) + 1)
        * is_pl(rows[i])

\* a shift(-1) taken over the whole table instead of within the customer
is_next_not_pl_ungrouped(rows, i) ==
    (IF i < Len(rows) THEN is_pl(rows[i + 1]) ELSE 0) # 1

\* df.groupby('lan')['is_pl'].shift(-1).fillna(0) != 1
is_next_not_pl(rows, i) ==
    LET n == GroupNext(rows, i)
    IN (IF n = 0 THEN 0 ELSE is_pl(rows[n])) # 1

is_pl_streak_end(rows, i) ==
    IF is_pl(rows[i]) = 1 /\ is_next_not_pl(rows, i) THEN 1 ELSE 0

\* the same without the final drop of the two helper columns
add_streak_features_undropped(df) ==
    DataFrame(
        df.cols \cup {"current_pl_streak", "is_pl_streak_end", "is_pl", "streak_id"},
        [i \in DOMAIN df.rows |->
            [current_pl_streak |-> Val(current_pl_streak(df.rows, i)),
             is_pl_streak_end |-> Val(is_pl_streak_end(df.rows, i)),
             is_pl |-> Val(is_pl(df.rows[i])),
             streak_id |-> Val(streak_id(df.rows, i))] @@ df.rows[i]])

\* the table as the function leaves it: the two helper columns are dropped again
add_streak_features(df) ==
    DataFrame(
        df.cols \cup {"current_pl_streak", "is_pl_streak_end"},
        [i \in DOMAIN df.rows |->
            [current_pl_streak |-> Val(current_pl_streak(df.rows, i)),
             is_pl_streak_end |-> Val(is_pl_streak_end(df.rows, i))] @@ df.rows[i]])

(***************************************************************************)
(* aggregate_bounce_lan: the table it builds in `categorized`.  The five   *)
(* prop_fl_* columns are the same lambda over five indicator columns;      *)
(* prop_fl_bounce stands for them.  The plain means of the amount columns  *)
(* are left out.                                                           *)
(***************************************************************************)
Count(rows, G, col) == Cardinality({i \in G : rows[i][col] # NaN})

ColSum(rows, G, col) ==
    LET S == {i \in G : rows[i][col] # NaN}
    IN Sum([i \in S |-> rows[i][col][1]], S)

\* Series.mean(): missing values are skipped, the mean of nothing is NaN
Mean(rows, G, col) == Float(ColSum(rows, G, col), Count(rows, G, col))

\* the same proportion without the test of the count
prop_fl_unguarded(rows, G, col) ==
    Float(ColSum(rows, G, col), Count(rows, G, col))

\* lambda x: x.sum() / x.count() if x.count() > 0 else 0.0
prop_fl(rows, G, col) ==
    IF Count(rows, G, col) > 0
    THEN Float(ColSum(rows, G, col), Count(rows, G, col))
    ELSE Float(0, 1)

bounce_row(rows, k) ==
    LET G == Group(rows, k)
    IN [lan |-> Val(k),
        num_pl_streaks |-> Val(Count(rows, G, "is_pl_streak_end")),
        avg_pl_streak_length |->
            Mean(rows, {i \in G : rows[i].is_pl_streak_end = Val(1)}, "current_pl_streak"),
        prop_fl_bounce |-> prop_fl(rows, G, "fl_bounce")]

bounce_categorized(raw) ==
    LET keys == GroupKeys(raw.rows)
    IN DataFrame(
        {"lan", "num_pl_streaks", "avg_pl_streak_length", "prop_fl_bounce"},
        [n \in DOMAIN keys |-> bounce_row(raw.rows, keys[n])])

(***************************************************************************)
(* aggregate_disposition_lan: the counts by contact type, the proportions  *)
(* and the message-only flag.  The counts by contact outcome and the plain *)
(* means are left out.                                                     *)
(***************************************************************************)
\* lambda x: (x == value).sum()
CountEq(rows, G, col, value) == Cardinality({i \in G : rows[i][col] = value})

\* ('type', 'count'): the entries that are not missing
CountStr(rows, G, col) == Cardinality({i \in G : rows[i][col] # NaStr})

\* np.where(total_contacts != 0, count / total_contacts, 0.0)
frequency(count, total) == IF total # 0 THEN Float(count, total) ELSE Float(0, 1)

disposition_row(rows, k) ==
    LET G == Group(rows, k)
        call_count == CountEq(rows, G, "type", "CALL")
        sms_count == CountEq(rows, G, "type", "SMS")
        field_count == CountEq(rows, G, "type", "DISPOSITION")
        total_contacts == CountStr(rows, G, "type")
    IN [lan |-> Val(k),
        call_count |-> Val(call_count),
        sms_count |-> Val(sms_count),
        field_count |-> Val(field_count),
        total_contacts |-> Val(total_contacts),
        call_frequency |-> frequency(call_count, total_contacts),
        sms_frequency |-> frequency(sms_count, total_contacts),
        field_frequency |-> frequency(field_count, total_contacts),
        is_message_only |-> Val(IF call_count = 0 /\ field_count = 0 THEN 1 ELSE 0)]

disposition_categorized(raw) ==
    LET keys == GroupKeys(raw.rows)
    IN DataFrame(
        {"lan", "call_count", "sms_count", "field_count", "total_contacts",
         "call_frequency", "sms_frequency", "field_frequency", "is_message_only"},
        [n \in DOMAIN keys |-> disposition_row(raw.rows, keys[n])])

(***************************************************************************)
(* Calendar arithmetic of datetime and dateutil.relativedelta.             *)
(***************************************************************************)
DateLT(a, b) ==
    \/ a[1] < b[1]
    \/ a[1] = b[1] /\ a[2] < b[2]
    \/ a[1] = b[1] /\ a[2] = b[2] /\ a[3] < b[3]

DateLE(a, b) == a = b \/ DateLT(a, b)

IsLeap(y) == (y % 4 = 0 /\ y % 100 # 0) \/ y % 400 = 0

DaysInMonth(y, m) ==
    IF m = 2 THEN (IF IsLeap(y) THEN 29 ELSE 28)
    ELSE IF m \in {4, 6, 9, 11} THEN 30 ELSE 31

\* d + relativedelta(months = k): the month moves, the day is cut to the month's length
AddMonths(d, k) ==
    LET total == d[1] * 12 + (d[2] - 1) + k
        y == total \div 12
        m == (total % 12) + 1
    IN <<y, m, IF d[3] > DaysInMonth(y, m) THEN DaysInMonth(y, m) ELSE d[3]>>

\* d - relativedelta(days = 1)
SubDay(d) ==
    IF d[3] > 1 THEN <<d[1], d[2], d[3] - 1>>
    ELSE IF d[2] > 1 THEN <<d[1], d[2] - 1, DaysInMonth(d[1], d[2] - 1)>>
    ELSE <<d[1] - 1, 12, 31>>

MonthAbbr == <<"jan", "feb", "mar", "apr", "may", "jun",
               "jul", "aug", "sep", "oct", "nov", "dec">>
Digit == <<"0", "1", "2", "3", "4", "5", "6", "7", "8", "9">>

\* d.strftime('%b_%y').lower()
strftime_b_y(d) ==
    MonthAbbr[d[2]] \o "_" \o Digit[((d[1] % 100) \div 10) + 1] \o Digit[(d[1] % 10) + 1]

\* date.toordinal(): the days from 0001-01-01, which is day 1
RECURSIVE DaysBeforeMonth(_, _)
DaysBeforeMonth(y, m) ==
    IF m = 1 THEN 0 ELSE DaysBeforeMonth(y, m - 1) + DaysInMonth(y, m - 1)

ToOrdinal(d) ==
    LET y == d[1] - 1
    IN y * 365 + (y \div 4) - (y \div 100) + (y \div 400) + DaysBeforeMonth(d[1], d[2]) + d[3]

(***************************************************************************)
(* sort_values: ascending, missing values last.  Rows with equal keys keep *)
(* their order; the claims below do not depend on the order among them.    *)
(***************************************************************************)
NaTLast == ToOrdinal(<<10000, 1, 1>>)

DateKey(d) == IF d = NaT THEN NaTLast ELSE ToOrdinal(d)

\* the indices I in ascending order of (key, index)
RECURSIVE SortIdx(_, _)
SortIdx(I, key) ==
    IF I = {} THEN <<>>
    ELSE LET m == CHOOSE i \in I : \A j \in I :
                        key[i] < key[j] \/ (key[i] = key[j] /\ i <= j)
         IN <<m>> \o SortIdx(I \ {m}, key)

SortByKey(rows, key) ==
    LET perm == SortIdx(DOMAIN rows, key)
    IN [n \in DOMAIN rows |-> rows[perm[n]]]

\* df.sort_values(by = col), col a date column
sort_values(df, col) ==
    DataFrame(df.cols, SortByKey(df.rows, [i \in DOMAIN df.rows |-> DateKey(df.rows[i][col])]))

(***************************************************************************)
(* pd.merge_asof(left, right, left_on, right_on, by = 'lan', direction):   *)
(* a left join; each left row takes the columns of one row of the same     *)
(* customer on the right: forward, the first whose key is not before the   *)
(* left key; nearest, the closer of that one and the last whose key is not *)
(* after it, the earlier one when they are as close.  Without a match the  *)
(* columns are missing.  A missing merge key on either side raises.        *)
(***************************************************************************)
asof_raises(left, right, left_on, right_on) ==
    \/ \E i \in DOMAIN left.rows : left.rows[i][left_on] = NaT
    \/ \E j \in DOMAIN right.rows : right.rows[j][right_on] = NaT

asof_forward(l, right, left_on, right_on) ==
    LET c == {j \in DOMAIN right.rows :
                right.rows[j].lan = l.lan /\ DateLE(l[left_on], right.rows[j][right_on])}
    IN IF c = {} THEN 0 ELSE Min(c)

asof_backward(l, right, left_on, right_on) ==
    LET c == {j \in DOMAIN right.rows :
                right.rows[j].lan = l.lan /\ DateLE(right.rows[j][right_on], l[left_on])}
    IN IF c = {} THEN 0 ELSE Max(c)

asof_match(l, right, left_on, right_on, direction) ==
    LET f == asof_forward(l, right, left_on, right_on)
        b == asof_backward(l, right, left_on, right_on)
    IN IF direction = "forward" THEN f
       ELSE IF b = 0 THEN f
       ELSE IF f = 0 THEN b
       ELSE IF ToOrdinal(l[left_on]) - ToOrdinal(right.rows[b][right_on])
                 <= ToOrdinal(right.rows[f][right_on]) - ToOrdinal(l[left_on])
            THEN b ELSE f

\* the columns the right table adds, missing when there is no match
asof_columns(right, j) ==
    [c \in right.cols \ {"lan"} |->
        IF j = 0 THEN NaN ELSE right.rows[j][c]]

merge_asof(left, right, left_on, right_on, direction) ==
    DataFrame(left.cols \cup (right.cols \ {"lan"}),
              [i \in DOMAIN left.rows |->
                  left.rows[i] @@
                  asof_columns(right, asof_match(left.rows[i], right, left_on, right_on, direction))])

\* df[cols]
Project(df, cols) ==
    DataFrame(cols, [i \in DOMAIN df.rows |-> [c \in cols |-> df.rows[i][c]]])

(***************************************************************************)
(* merge_dispositions_to_dues.  The flag fl_bounce_tp3 stands for the two  *)
(* outcome flags it carries along.                                         *)
(***************************************************************************)
due_lookup(df_due) == Project(df_due, {"lan", "due_date", "fl_bounce_tp3"})

merged(df_due, df_disposition) ==
    merge_asof(sort_values(df_disposition, "created_at"),
               sort_values(due_lookup(df_due), "due_date"),
               "created_at", "due_date", "forward")

(***************************************************************************)
(* The day gaps: df.groupby('lan')[col].diff().dt.days                     *)
(***************************************************************************)
diff_days(rows, col, i) ==
    LET p == GroupPrev(rows, i)
    IN IF p = 0 \/ rows[i][col] = NaT \/ rows[p][col] = NaT THEN NaN
       ELSE Val(ToOrdinal(rows[i][col]) - ToOrdinal(rows[p][col]))

\* df[name] = df.groupby('lan')[col].diff().dt.days
with_diff_days(df, name, col) ==
    DataFrame(df.cols \cup {name},
              [i \in DOMAIN df.rows |-> (name :> diff_days(df.rows, col, i)) @@ df.rows[i]])

(***************************************************************************)
(* create_dummy_data, from the rows it has drawn on.                       *)
(***************************************************************************)
FirstLan == 1001
ContactsPerDue == 3

\* df.sort_values(by = ['lan', col])
sort_by_lan_and(df, col) ==
    LET by_col == SortByKey(df.rows, [i \in DOMAIN df.rows |-> DateKey(df.rows[i][col])])
    IN DataFrame(df.cols,
                 SortByKey(by_col,
                           [i \in DOMAIN by_col |->
                               IF by_col[i].lan = NaN THEN NaTLast ELSE by_col[i].lan[1]]))

\* df[df['type'] == contact_type]
of_type(df, contact_type) ==
    DataFrame(df.cols, SelectSeq(df.rows, LAMBDA r : r.type = contact_type))

\* the rows of pd.merge(left, right[['lan', 'created_at', col]], on = ['lan',
\* 'created_at'], how = 'left') from row n of the left table on: a left row is
\* repeated for every row on the right with its customer and time
RECURSIVE merge_left(_, _, _, _)
merge_left(left, right, col, n) ==
    IF n > Len(left) THEN <<>>
    ELSE LET m == SelectSeq(right, LAMBDA r : r.lan = left[n].lan
                                            /\ r.created_at = left[n].created_at)
         IN (IF m = <<>> THEN <<(col :> NaN) @@ left[n]>>
             ELSE [k \in DOMAIN m |-> (col :> m[k][col]) @@ left[n]])
            \o merge_left(left, right, col, n + 1)

\* one turn of the loop over the contact types
with_type_delta(df, contact_type, col_name) ==
    LET df_disp_type == with_diff_days(of_type(df, contact_type), col_name, "created_at")
    IN DataFrame(df.cols \cup {col_name},
                 merge_left(df.rows, df_disp_type.rows, col_name, 1))

dummy_due(df_due) == sort_by_lan_and(df_due, "due_date")

dummy_disposition(df_due, df_disposition) ==
    LET joined == merge_asof(sort_values(df_disposition, "created_at"),
                             sort_values(Project(df_due, {"lan", "due_date"}), "due_date"),
                             "created_at", "due_date", "nearest")
        sorted == sort_by_lan_and(joined, "created_at")
        all == with_diff_days(sorted, "time_since_last_contact", "created_at")
        call == with_type_delta(all, "CALL", "time_since_last_call")
        sms == with_type_delta(call, "SMS", "time_since_last_sms")
    IN with_type_delta(sms, "DISPOSITION", "time_since_last_disposition_event")

(***************************************************************************)
(* training_set_split                                                      *)
(***************************************************************************)
current_start(start, i) == AddMonths(start, i)

\* a window that stops one month short
current_end_short(start, i, interval_magnitude) ==
    SubDay(AddMonths(current_start(start, i), interval_magnitude - 1))

current_end(start, i, interval_magnitude) ==
    SubDay(AddMonths(current_start(start, i), interval_magnitude))

\* raw[(raw[col].dt.date >= current_start.date()) & (raw[col].dt.date <= current_end.date())].copy()
df_interval_split(raw, col, lo, hi) ==
    DataFrame(raw.cols,
              SelectSeq(raw.rows,
                        LAMBDA r : r[col] # NaT /\ DateLE(lo, r[col]) /\ DateLE(r[col], hi)))

\* a dict keeps its keys in the order of their first insertion
EmptyDict == [keys |-> <<>>, items |-> <<>>]

DictSet(d, k, v) ==
    [keys |-> IF k \in Range(d.keys) THEN d.keys ELSE Append(d.keys, k),
     items |-> (k :> v) @@ d.items]

\* the loop of training_set_split: window i is stored at base + i + 1
RECURSIVE split_loop(_, _, _, _, _)
split_loop(d, start, i, num_intervals, base) ==
    IF i >= num_intervals THEN d
    ELSE split_loop(DictSet(d, strftime_b_y(current_start(start, i)), base + i + 1),
                    start, i + 1, num_intervals, base)

\* the object store after training_set_split: one new table per window, then the dict
split_heap(h, start, num_intervals, interval_magnitude, raw, col) ==
    h \o [n \in 1..num_intervals |->
            df_interval_split(h[raw], col, current_start(start, n - 1),
                              current_end(start, n - 1, interval_magnitude))]
      \o <<split_loop(EmptyDict, start, 0, num_intervals, Len(h))>>

(***************************************************************************)
(* A call of one of the functions on the table x in the store h: the store *)
(* after the call and the value returned.                                  *)
(***************************************************************************)
Call(f, h, x) ==
    CASE f = "identity" -> [heap |-> h, ret |-> x]
      [] f = "add_streak_features" ->
            [heap |-> [h EXCEPT ![x] = add_streak_features(h[x])], ret |-> x]
      [] f = "aggregate_bounce_lan" ->
            [heap |-> Append(h, bounce_categorized(h[x])), ret |-> None]
      [] f = "aggregate_disposition_lan" ->
            [heap |-> Append(h, disposition_categorized(h[x])), ret |-> Len(h) + 1]

(***************************************************************************)
(* apply_function: for item in raw: raw[item] = function(raw[item])        *)
(***************************************************************************)
\* the loop with the result of the call dropped
RECURSIVE apply_loop_unassigned(_, _, _, _)
apply_loop_unassigned(h, raw, function, n) ==
    IF n > Len(h[raw].keys) THEN h
    ELSE apply_loop_unassigned(Call(function, h, h[raw].items[h[raw].keys[n]]).heap,
                               raw, function, n + 1)

RECURSIVE apply_loop(_, _, _, _)
apply_loop(h, raw, function, n) ==
    IF n > Len(h[raw].keys) THEN h
    ELSE LET item == h[raw].keys[n]
             r == Call(function, h, h[raw].items[item])
         IN apply_loop([r.heap EXCEPT ![raw] = DictSet(@, item, r.ret)],
                       raw, function, n + 1)

(***************************************************************************)
(* The calls.  Each sets pre to the store it started from.                 *)
(***************************************************************************)
\* create_dummy_data(num_customers, num_dues_per_customer): draws the two tables
\* at random and returns them as a pair
CreateDummyData(num_customers, num_dues_per_customer) ==
    LET num_rows_due == num_customers * num_dues_per_customer
        num_rows_disp == num_rows_due * ContactsPerDue
        lans == {Val(FirstLan + c) : c \in 0..(num_customers - 1)}
    IN \E due_date \in [1..num_rows_due -> DummyDates],
          tenor \in [1..num_rows_due -> TenorTypes],
          disp \in [1..num_rows_disp -> lans \X DummyDates \X ContactTypes] :
        LET df_due ==
                dummy_due(DataFrame(DueCols,
                    [i \in 1..num_rows_due |->
                        DueRow(Val(FirstLan + ((i - 1) \div num_dues_per_customer)),
                               due_date[i], tenor[i], Val(0), Val(0))]))
            df_disposition ==
                dummy_disposition(df_due, DataFrame(DispositionCols,
                    [i \in 1..num_rows_disp |->
                        DispositionRow(disp[i][1], disp[i][2], disp[i][3])]))
        IN /\ pre' = heap
           /\ heap' = heap \o <<df_due, df_disposition, [elems |-> <<Len(heap) + 1, Len(heap) + 2>>]>>
           /\ pc' = "create_dummy_data"
           /\ arg' = <<num_customers, num_dues_per_customer>>
           /\ ret' = Len(heap) + 3
           /\ local' = None
           /\ exc' = ""

\* df['time_since_last_due'] = df.groupby('lan')['due_date'].diff().dt.days, the
\* statement of the scripts on their own due table
TimeSinceLastDue(df) ==
    /\ df \in DOMAIN heap
    /\ {"lan", "due_date"} \subseteq heap[df].cols
    /\ pre' = heap
    /\ heap' = [heap EXCEPT ![df] = with_diff_days(heap[df], "time_since_last_due", "due_date")]
    /\ pc' = "time_since_last_due"
    /\ arg' = <<df>>
    /\ ret' = None
    /\ local' = None
    /\ exc' = ""

\* merge_dispositions_to_dues(df_due, df_disposition): returns the merged table,
\* or raises from merge_asof; the copies it sorts are dropped on return
MergeDispositionsToDues(df_due, df_disposition) ==
    /\ df_due \in DOMAIN heap /\ df_disposition \in DOMAIN heap
    /\ {"lan", "due_date", "fl_bounce_tp3"} \subseteq heap[df_due].cols
    /\ {"lan", "created_at"} \subseteq heap[df_disposition].cols
    /\ pre' = heap
    /\ pc' = "merge_dispositions_to_dues"
    /\ arg' = <<df_due, df_disposition>>
    /\ local' = None
    /\ IF asof_raises(heap[df_disposition], due_lookup(heap[df_due]), "created_at", "due_date")
       THEN heap' = heap /\ ret' = None /\ exc' = "ValueError"
       ELSE /\ heap' = Append(heap, merged(heap[df_due], heap[df_disposition]))
            /\ ret' = Len(heap) + 1
            /\ exc' = ""

\* training_set_split(start, num_intervals, interval_magnitude, raw, date_col_name)
TrainingSetSplit(start, num_intervals, interval_magnitude, raw, date_col_name) ==
    /\ raw \in DOMAIN heap
    /\ date_col_name \in heap[raw].cols
    /\ pre' = heap
    /\ heap' = split_heap(heap, start, num_intervals, interval_magnitude, raw, date_col_name)
    /\ pc' = "training_set_split"
    /\ arg' = <<raw, start, num_intervals, interval_magnitude, date_col_name>>
    /\ ret' = Len(heap) + num_intervals + 1
    /\ local' = None
    /\ exc' = ""

\* apply_function(raw, function): rewrites the dict it was given and returns nothing
ApplyFunction(raw, function) ==
    /\ raw \in DOMAIN heap
    /\ pre' = heap
    /\ heap' = apply_loop(heap, raw, function, 1)
    /\ pc' = "apply_function"
    /\ arg' = <<raw, function>>
    /\ ret' = None
    /\ local' = None
    /\ exc' = ""

\* aggregate_disposition_lan(raw): returns the table it built
AggregateDispositionLan(raw) ==
    /\ raw \in DOMAIN heap
    /\ "type" \in heap[raw].cols
    /\ pre' = heap
    /\ heap' = Call("aggregate_disposition_lan", heap, raw).heap
    /\ pc' = "aggregate_disposition_lan"
    /\ arg' = <<raw>>
    /\ ret' = Call("aggregate_disposition_lan", heap, raw).ret
    /\ local' = Len(heap) + 1
    /\ exc' = ""

\* add_streak_features(df): writes the columns into df itself and returns df
AddStreakFeatures(df) ==
    /\ df \in DOMAIN heap
    /\ "due_level_tenor_type" \in heap[df].cols
    /\ pre' = heap
    /\ heap' = Call("add_streak_features", heap, df).heap
    /\ pc' = "add_streak_features"
    /\ arg' = <<df>>
    /\ ret' = Call("add_streak_features", heap, df).ret
    /\ local' = None
    /\ exc' = ""

\* aggregate_bounce_lan(raw): builds `categorized` and falls off the end of the function
AggregateBounceLan(raw) ==
    /\ raw \in DOMAIN heap
    /\ {"is_pl_streak_end", "current_pl_streak", "fl_bounce"} \subseteq heap[raw].cols
    /\ pre' = heap
    /\ heap' = Call("aggregate_bounce_lan", heap, raw).heap
    /\ pc' = "aggregate_bounce_lan"
    /\ arg' = <<raw>>
    /\ ret' = Call("aggregate_bounce_lan", heap, raw).ret
    /\ local' = Len(heap) + 1
    /\ exc' = ""

(***************************************************************************)
(* Due tables.  data_processing.py reads them from a file; the rows of a   *)
(* customer follow one another by date, the customers in any order.        *)
(***************************************************************************)
\* the i-th row is due on the i-th day of January 2023
DatedRows(rs) ==
    [i \in DOMAIN rs |-> DueRow(rs[i][1], <<2023, 1, i>>, rs[i][2], rs[i][3], Val(0))]

StreakTables ==
    {DataFrame(DueCols, DatedRows(rs)) :
        rs \in SeqsUpTo((Customers \cup {NaN}) \X TenorTypes \X {Val(0)}, MaxDueRows)}

(***************************************************************************)
(* The due pipeline of data_processing.py, lines 9 and 16.                 *)
(***************************************************************************)
InitStreak ==
    /\ heap \in {<<t>> : t \in StreakTables}
    /\ pre = heap
    /\ pc = "start"
    /\ arg = <<>>
    /\ ret = None
    /\ local = None
    /\ exc = ""

NextStreak ==
    \/ pc = "start" /\ AddStreakFeatures(1)
    \/ pc = "add_streak_features" /\ AggregateBounceLan(1)

SpecStreak == InitStreak /\ [][NextStreak]_vars

(***************************************************************************)
(* Streaks: what the claims say, stated from the table alone.              *)
(***************************************************************************)
IsPL(row) == row.due_level_tenor_type = "PL only"

LaterOfCustomer(rows, i) == {j \in (i + 1)..Len(rows) : rows[j].lan = rows[i].lan}
EarlierOfCustomer(rows, i) == {j \in 1..(i - 1) : rows[j].lan = rows[i].lan}

\* each customer's rows appear in chronological order
ChronoByCustomer(rows, col) ==
    \A i \in DOMAIN rows : \A j \in LaterOfCustomer(rows, i) :
        rows[i].lan # NaN => DateLE(rows[i][col], rows[j][col])

\* 1-based position of row i in its customer's run of consecutive PL-only rows
RECURSIVE RunPosition(_, _)
RunPosition(rows, i) ==
    IF ~IsPL(rows[i]) THEN 0
    ELSE IF EarlierOfCustomer(rows, i) = {} THEN 1
    ELSE RunPosition(rows, Max(EarlierOfCustomer(rows, i))) + 1

\* C2: after add_streak_features, on a table whose customers' rows are each in
\* chronological order (customers may interleave), every row's streak counter is
\* its 1-based position in its customer's run of consecutive PL-only rows, 0
\* for a row that is not PL-only.
StreakCounterIsRunPosition ==
    pc = "add_streak_features" =>
        LET rows == heap[ret].rows
        IN (ChronoByCustomer(rows, "due_date") /\ \A i \in DOMAIN rows : rows[i].lan # NaN) =>
            \A i \in DOMAIN rows :
                rows[i].current_pl_streak = Val(RunPosition(rows, i))

\* C3: after add_streak_features, a row of a customer is flagged as a streak end
\* exactly when it is PL-only and the customer's next row is not PL-only or
\* does not exist; so a customer's only row, if PL-only, is flagged, and a
\* customer without PL-only rows has no flagged row.
StreakEndIffRunEnds ==
    pc = "add_streak_features" =>
        LET rows == heap[ret].rows
        IN \A i \in DOMAIN rows :
            rows[i].lan # NaN =>
                /\ rows[i].is_pl_streak_end \in {Val(0), Val(1)}
                /\ (rows[i].is_pl_streak_end = Val(1)) <=>
                      (/\ IsPL(rows[i])
                       /\ \/ LaterOfCustomer(rows, i) = {}
                          \/ ~IsPL(rows[Min(LaterOfCustomer(rows, i))]))
                /\ (IsPL(rows[i]) /\ LaterOfCustomer(rows, i) = {}
                        /\ EarlierOfCustomer(rows, i) = {})
                      => rows[i].is_pl_streak_end = Val(1)
                /\ (\A j \in DOMAIN rows : rows[j].lan = rows[i].lan => ~IsPL(rows[j]))
                      => rows[i].is_pl_streak_end = Val(0)

\* a PL-only row of customer 1 followed by a row of customer 2 and then by a row
\* of customer 1 that is not PL-only: flagged; and a PL-only row followed, after a
\* row of another customer that is not PL-only, by a PL-only row: not flagged
StreakEndWitness ==
    /\ pc = "add_streak_features"
    /\ LET rows == heap[ret].rows
       IN /\ \E i \in DOMAIN rows :
                /\ i + 2 \in DOMAIN rows
                /\ rows[i].lan = Val(1) /\ rows[i + 1].lan = Val(2) /\ rows[i + 2].lan = Val(1)
                /\ IsPL(rows[i]) /\ IsPL(rows[i + 1]) /\ ~IsPL(rows[i + 2])
                /\ rows[i].is_pl_streak_end = Val(1)
          \/ \E i \in DOMAIN rows :
                /\ i + 2 \in DOMAIN rows
                /\ rows[i].lan = Val(1) /\ rows[i + 1].lan = Val(2) /\ rows[i + 2].lan = Val(1)
                /\ IsPL(rows[i]) /\ ~IsPL(rows[i + 1]) /\ IsPL(rows[i + 2])
                /\ rows[i].is_pl_streak_end = Val(0)

FloatEq(x, y) ==
    IF x.den = 0 \/ y.den = 0 THEN x.den = 0 /\ y.den = 0
    ELSE x.num * y.den = y.num * x.den

\* C10: the num_pl_streaks that aggregate_bounce_lan computes for a customer is
\* the number of the customer's rows flagged as streak ends, and
\* avg_pl_streak_length is the mean of the streak counter over those rows.
StreakCountIsEndRows ==
    pc = "aggregate_bounce_lan" =>
        LET rows == heap[arg[1]].rows
            out == heap[local].rows
        IN \A n \in DOMAIN out :
            LET E == {i \in DOMAIN rows :
                        rows[i].lan = out[n].lan /\ rows[i].is_pl_streak_end = Val(1)}
            IN /\ out[n].num_pl_streaks = Val(Cardinality(E))
               /\ FloatEq(out[n].avg_pl_streak_length,
                          Float(Sum([i \in E |-> rows[i].current_pl_streak[1]], E),
                                Cardinality(E)))


(***************************************************************************)
(* The two aggregations of data_processing.py, lines 16 and 17.            *)
(***************************************************************************)
AggDueTables ==
    {DataFrame(DueCols, DatedRows(rs)) :
        rs \in SeqsUpTo((Customers \cup {NaN}) \X TenorTypes \X Indicators, MaxAggRows)}

AggDispositionTables ==
    {DataFrame(DispositionCols,
               [i \in DOMAIN rs |-> DispositionRow(rs[i][1], <<2023, 1, i>>, rs[i][2])]) :
        rs \in SeqsUpTo((Customers \cup {NaN}) \X (ContactTypes \cup {NaStr}), MaxAggRows)}

InitAgg ==
    /\ heap \in {<<t>> : t \in AggDueTables \cup AggDispositionTables}
    /\ pre = heap
    /\ pc = "start"
    /\ arg = <<>>
    /\ ret = None
    /\ local = None
    /\ exc = ""

NextAgg ==
    \/ pc = "start" /\ AddStreakFeatures(1)
    \/ pc = "add_streak_features" /\ AggregateBounceLan(1)
    \/ pc = "start" /\ AggregateDispositionLan(1)

SpecAgg == InitAgg /\ [][NextAgg]_vars

Aggregated == pc \in {"aggregate_bounce_lan", "aggregate_disposition_lan"}

DistinctCustomers(rows) == {rows[i].lan : i \in {j \in DOMAIN rows : rows[j].lan # NaN}}

\* C1: each aggregator returns a table with exactly one row per distinct
\* non-missing customer id of its input, no customer twice.
AggregatorReturnsOneRowPerCustomer ==
    Aggregated =>
        /\ ret # None
        /\ LET out == heap[ret].rows
               in == heap[arg[1]].rows
           IN /\ Len(out) = Cardinality(DistinctCustomers(in))
              /\ {out[n].lan : n \in DOMAIN out} = DistinctCustomers(in)

\* the part of C1 that holds: the table each aggregator builds has one row per
\* distinct non-missing customer id, and aggregate_disposition_lan returns it
AggregatorBuildsOneRowPerCustomer ==
    Aggregated =>
        /\ LET out == heap[local].rows
               in == heap[arg[1]].rows
           IN /\ Len(out) = Cardinality(DistinctCustomers(in))
              /\ {out[n].lan : n \in DOMAIN out} = DistinctCustomers(in)
        /\ pc = "aggregate_disposition_lan" => ret = local

InUnit(p) == p.den > 0 /\ 0 <= p.num /\ p.num <= p.den
IsZero(p) == p.den > 0 /\ p.num = 0

\* C7: every proportion the aggregators compute is a number in [0, 1], and is
\* exactly 0.0 for a customer whose underlying column has no non-missing
\* entry; no proportion is the outcome of a division by zero.
ProportionsInUnitInterval ==
    Aggregated =>
        LET out == heap[local].rows
            in == heap[arg[1]].rows
        IN \A n \in DOMAIN out :
            LET G == {i \in DOMAIN in : in[i].lan = out[n].lan}
            IN IF pc = "aggregate_bounce_lan"
               THEN /\ InUnit(out[n].prop_fl_bounce)
                    /\ (\A i \in G : in[i].fl_bounce = NaN) => IsZero(out[n].prop_fl_bounce)
               ELSE /\ InUnit(out[n].call_frequency)
                    /\ InUnit(out[n].sms_frequency)
                    /\ InUnit(out[n].field_frequency)
                    /\ (\A i \in G : in[i].type = NaStr) =>
                          /\ IsZero(out[n].call_frequency)
                          /\ IsZero(out[n].sms_frequency)
                          /\ IsZero(out[n].field_frequency)

\* one customer whose indicator is missing on every row and so has proportion
\* 0.0, beside a customer whose proportion is strictly between 0 and 1
ProportionsWitness ==
    /\ pc = "aggregate_bounce_lan"
    /\ LET out == heap[local].rows
           in == heap[arg[1]].rows
       IN /\ Len(out) = 2
          /\ \A i \in DOMAIN in : in[i].lan = out[1].lan => in[i].fl_bounce = NaN
          /\ IsZero(out[1].prop_fl_bounce)
          /\ out[2].prop_fl_bounce.num > 0
          /\ out[2].prop_fl_bounce.num < out[2].prop_fl_bounce.den

(***************************************************************************)
(* The windows of data_processing.py, lines 9, 24 and 32: the due table is *)
(* enriched, split into windows, and a function is applied to each window. *)
(***************************************************************************)
Starts == {<<2023, 9, 5>>, <<2023, 12, 31>>}
Magnitudes == 1..MaxMagnitude \cup {12}
SplitDates == {<<2023, 9, 4>>, <<2023, 9, 5>>, <<2023, 10, 4>>, <<2023, 10, 5>>,
               <<2024, 2, 28>>, <<2024, 2, 29>>, NaT}
Transforms == {"identity", "add_streak_features", "aggregate_bounce_lan"}

SplitTables ==
    {DataFrame(DueCols,
               [i \in DOMAIN rs |-> DueRow(Val(1), rs[i][1], rs[i][2], Val(0), Val(0))]) :
        rs \in SeqsUpTo(SplitDates \X TenorTypes, MaxSplitRows)}

InitSplit ==
    /\ heap \in {<<t>> : t \in SplitTables}
    /\ pre = heap
    /\ pc = "start"
    /\ arg = <<>>
    /\ ret = None
    /\ local = None
    /\ exc = ""

NextSplit ==
    \/ pc = "start" /\ AddStreakFeatures(1)
    \/ /\ pc = "add_streak_features"
       /\ \E start \in Starts, num_intervals \in 0..MaxIntervals,
             interval_magnitude \in Magnitudes :
             TrainingSetSplit(start, num_intervals, interval_magnitude, 1, "due_date")
    \/ pc = "training_set_split" /\ \E function \in Transforms : ApplyFunction(ret, function)

SpecSplit == InitSplit /\ [][NextSplit]_vars

\* the rows of a table dated from lo on and before the day `months` months after lo
RowsFrom(rows, col, lo, months) ==
    SelectSeq(rows, LAMBDA r : r[col] # NaT /\ ~DateLT(r[col], lo)
                                /\ DateLT(r[col], AddMonths(lo, months)))

\* C4: training_set_split returns a mapping with exactly one entry for each
\* i in 0..num_intervals-1, keyed by the lower-cased month abbreviation and
\* 2-digit year of start + i months, holding exactly the rows dated from that
\* day to the day before interval_magnitude months later, both included; a row
\* without a date is in no window and no interval gives the empty mapping.
SplitGivesOneWindowPerInterval ==
    pc = "training_set_split" =>
        LET raw == pre[arg[1]]
            start == arg[2]
            num_intervals == arg[3]
            interval_magnitude == arg[4]
            df_split == heap[ret]
        IN /\ Len(df_split.keys) = num_intervals
           /\ DOMAIN df_split.items = Range(df_split.keys)
           /\ \A i \in 0..(num_intervals - 1) :
                LET lo == AddMonths(start, i)
                    key == strftime_b_y(lo)
                IN /\ df_split.keys[i + 1] = key
                   /\ heap[df_split.items[key]].cols = raw.cols
                   /\ heap[df_split.items[key]].rows =
                        RowsFrom(raw.rows, arg[5], lo, interval_magnitude)
                   /\ \A r \in Range(heap[df_split.items[key]].rows) : r[arg[5]] # NaT
           /\ (start = <<2023, 9, 5>> /\ num_intervals >= 3) =>
                SubSeq(df_split.keys, 1, 3) = <<"sep_23", "oct_23", "nov_23">>
           /\ (start = <<2023, 12, 31>> /\ num_intervals >= 3) =>
                SubSeq(df_split.keys, 1, 3) = <<"dec_23", "jan_24", "feb_24">>

\* from 2023-12-31 by one month: the second window starts on 2024-01-31 and ends
\* on 2024-02-28, so of a row of 2024-02-28 and a row of 2024-02-29 it holds the
\* first only, and the third window, which starts on 2024-02-29, the second only
SplitWitness ==
    /\ pc = "training_set_split"
    /\ arg[2] = <<2023, 12, 31>> /\ arg[3] = 3 /\ arg[4] = 1
    /\ Len(pre[arg[1]].rows) = 2
    /\ pre[arg[1]].rows[1].due_date = <<2024, 2, 28>>
    /\ pre[arg[1]].rows[2].due_date = <<2024, 2, 29>>
    /\ heap[heap[ret].items["jan_24"]].rows = <<heap[arg[1]].rows[1]>>
    /\ heap[heap[ret].items["feb_24"]].rows = <<heap[arg[1]].rows[2]>>
    /\ heap[heap[ret].items["dec_23"]].rows = <<>>

\* C8 as stated: apply_function returns a mapping with the same labels whose
\* values are the transformed originals.
ApplyReturnsTransformedMapping ==
    pc = "apply_function" =>
        /\ ret # None
        /\ heap[ret].keys = pre[arg[1]].keys
        /\ \A k \in Range(pre[arg[1]].keys) :
              heap[ret].items[k] = Call(arg[2], pre, pre[arg[1]].items[k]).ret

\* C8 as the code has it: apply_function returns nothing; the mapping passed in
\* keeps its labels and each value is replaced by the transform of the original
\* value; with the identity on the output of training_set_split every window is
\* the same table with the same rows as before.
ApplyRewritesMappingInPlace ==
    pc = "apply_function" =>
        LET raw == arg[1]
            function == arg[2]
        IN /\ ret = None
           /\ heap[raw].keys = pre[raw].keys
           /\ DOMAIN heap[raw].items = DOMAIN pre[raw].items
           /\ \A k \in Range(pre[raw].keys) :
                LET old == pre[raw].items[k]
                    new == heap[raw].items[k]
                IN CASE function = "identity" -> new = old /\ heap[old] = pre[old]
                     [] function = "add_streak_features" ->
                            new = old /\ heap[old] = add_streak_features(pre[old])
                     [] function = "aggregate_bounce_lan" ->
                            new = None /\ heap[old] = pre[old]

\* aggregate_bounce_lan applied to two windows of which one holds a row
ApplyWitness ==
    /\ pc = "apply_function"
    /\ arg[2] = "aggregate_bounce_lan"
    /\ Len(pre[arg[1]].keys) = 2
    /\ \E k \in Range(pre[arg[1]].keys) : Len(pre[pre[arg[1]].items[k]].rows) = 1
    /\ \A k \in Range(heap[arg[1]].keys) : heap[arg[1]].items[k] = None

(***************************************************************************)
(* The join of data_processing.py, line 14.  Both tables come from files   *)
(* whose dates were parsed with errors = 'coerce': a date may be missing.  *)
(***************************************************************************)
MergeDates == {<<2023, 9, 5>>, <<2023, 9, 6>>, <<2023, 9, 15>>, NaT}

MergeDueTables ==
    {DataFrame(DueCols,
               [i \in DOMAIN rs |-> DueRow(rs[i][1], rs[i][2], "PL only", Val(0), rs[i][3])]) :
        rs \in SeqsUpTo(Customers \X MergeDates \X {Val(0), Val(1)}, MaxMergeRows)}

MergeDispositionTables ==
    {DataFrame(DispositionCols,
               [i \in DOMAIN rs |-> DispositionRow(rs[i][1], rs[i][2], "CALL")]) :
        rs \in SeqsUpTo(Customers \X MergeDates, MaxMergeRows)}

InitMerge ==
    /\ heap \in {<<due, disp>> : due \in MergeDueTables, disp \in MergeDispositionTables}
    /\ pre = heap
    /\ pc = "start"
    /\ arg = <<>>
    /\ ret = None
    /\ local = None
    /\ exc = ""

NextMerge == pc = "start" /\ MergeDispositionsToDues(1, 2)

SpecMerge == InitMerge /\ [][NextMerge]_vars

Occurrences(rows, r) == Cardinality({i \in DOMAIN rows : rows[i] = r})

\* the merged table has the rows of the disposition table, each once, and each
\* with the earliest due of its customer that is not before it, if there is one
MatchesEarliestDue(out, due, disp) ==
    /\ Len(out.rows) = Len(disp.rows)
    /\ \A i \in DOMAIN disp.rows :
          Occurrences(Project(out, disp.cols).rows, disp.rows[i])
              = Occurrences(disp.rows, disp.rows[i])
    /\ \A n \in DOMAIN out.rows :
          LET o == out.rows[n]
              later == {j \in DOMAIN due.rows :
                          /\ due.rows[j].lan = o.lan
                          /\ due.rows[j].due_date # NaT
                          /\ o.created_at # NaT
                          /\ DateLE(o.created_at, due.rows[j].due_date)}
          IN IF later = {}
             THEN o.due_date = NaT /\ o.fl_bounce_tp3 = NaN
             ELSE /\ \E j \in later :
                        /\ o.due_date = due.rows[j].due_date
                        /\ o.fl_bounce_tp3 = due.rows[j].fl_bounce_tp3
                  /\ \A j \in later : DateLE(o.due_date, due.rows[j].due_date)

\* C5: for every disposition table and due table merge_dispositions_to_dues
\* returns one row per disposition row, matched to the earliest due of the same
\* customer at or after its time, with missing due columns when there is none.
MergeMatchesEarliestDue ==
    pc = "merge_dispositions_to_dues" =>
        /\ exc = ""
        /\ ret # None
        /\ MatchesEarliestDue(heap[ret], pre[arg[1]], pre[arg[2]])

\* the part of C5 that holds: the same, for tables in which no date is missing
MergeMatchesEarliestDueWhenDated ==
    pc = "merge_dispositions_to_dues" =>
        IF \/ \E i \in DOMAIN pre[arg[1]].rows : pre[arg[1]].rows[i].due_date = NaT
           \/ \E i \in DOMAIN pre[arg[2]].rows : pre[arg[2]].rows[i].created_at = NaT
        THEN exc = "ValueError" /\ ret = None
        ELSE exc = "" /\ ret # None /\ MatchesEarliestDue(heap[ret], pre[arg[1]], pre[arg[2]])

(***************************************************************************)
(* The day gaps: data_processing_dummy.py, lines 6 and 9, on the tables of *)
(* create_dummy_data, and data_processing.py, lines 7 and 8, on a due      *)
(* table read from a file.                                                 *)
(***************************************************************************)
FileDueTables ==
    {DataFrame(DueCols,
               [i \in DOMAIN rs |-> DueRow(rs[i][1], rs[i][2], "PL only", Val(0), Val(0))]) :
        rs \in SeqsUpTo((Customers \cup {NaN}) \X (DummyDates \cup {NaT}), MaxDeltaRows)}

InitDelta ==
    /\ heap \in {<<>>} \cup {<<t>> : t \in FileDueTables}
    /\ pre = heap
    /\ pc = "start"
    /\ arg = <<>>
    /\ ret = None
    /\ local = None
    /\ exc = ""

NextDelta ==
    \/ /\ pc = "start" /\ heap = <<>>
       /\ \E num_customers \in 1..MaxCustomers, num_dues_per_customer \in 1..MaxDuesPerCustomer :
             CreateDummyData(num_customers, num_dues_per_customer)
    \/ pc = "create_dummy_data" /\ TimeSinceLastDue(1)
    \/ pc = "start" /\ heap # <<>> /\ TimeSinceLastDue(1)

SpecDelta == InitDelta /\ [][NextDelta]_vars

\* the rows of the table before row i that are in row i's group
EarlierInGroup(rows, i, SameGroup(_, _)) == {j \in 1..(i - 1) : SameGroup(rows[j], rows[i])}

\* the rows of each group are in chronological order, none without a time
ChronoInGroups(rows, col, SameGroup(_, _)) ==
    \A i \in DOMAIN rows :
        /\ rows[i][col] # NaT
        /\ \A j \in EarlierInGroup(rows, i, SameGroup) : DateLE(rows[j][col], rows[i][col])

\* the delta column is missing on the first row of each group and is, on every
\* later row, the number of days since the group's previous row, not negative
IsDeltaOf(rows, delta, col, InSomeGroup(_), SameGroup(_, _)) ==
    \A i \in DOMAIN rows :
        InSomeGroup(rows[i]) =>
            LET e == EarlierInGroup(rows, i, SameGroup)
            IN IF e = {} THEN rows[i][delta] = NaN
               ELSE /\ rows[i][delta] # NaN
                    /\ rows[i][delta][1] >= 0
                    /\ rows[i][delta][1]
                          = ToOrdinal(rows[i][col]) - ToOrdinal(rows[Max(e)][col])

SameCustomer(r, s) == r.lan # NaN /\ r.lan = s.lan
SameCustomerAndType(r, s) == SameCustomer(r, s) /\ r.type = s.type
HasCustomer(r) == r.lan # NaN
IsCall(r) == HasCustomer(r) /\ r.type = "CALL"
IsSms(r) == HasCustomer(r) /\ r.type = "SMS"
IsFieldEvent(r) == HasCustomer(r) /\ r.type = "DISPOSITION"

\* C6: on a table whose rows are in chronological order within each customer,
\* times possibly repeated, each delta column is missing on the first record of
\* its group (the customer, or the customer and contact type) and is on every
\* later record the non-negative number of days since the group's previous record.
DeltasAreGapsToPreviousRecord ==
    /\ pc = "create_dummy_data" =>
          LET rows == heap[heap[ret].elems[2]].rows
          IN ChronoInGroups(rows, "created_at", SameCustomer) =>
              /\ IsDeltaOf(rows, "time_since_last_contact", "created_at",
                           HasCustomer, SameCustomer)
              /\ IsDeltaOf(rows, "time_since_last_call", "created_at",
                           IsCall, SameCustomerAndType)
              /\ IsDeltaOf(rows, "time_since_last_sms", "created_at",
                           IsSms, SameCustomerAndType)
              /\ IsDeltaOf(rows, "time_since_last_disposition_event", "created_at",
                           IsFieldEvent, SameCustomerAndType)
    /\ pc = "time_since_last_due" =>
          LET rows == heap[arg[1]].rows
          IN ChronoInGroups(rows, "due_date", SameCustomer) =>
              IsDeltaOf(rows, "time_since_last_due", "due_date", HasCustomer, SameCustomer)

\* the part of C6 that holds: time_since_last_due, and every delta column of
\* create_dummy_data when no customer has two contacts at the same time
DeltasAreGapsWhenTimesDiffer ==
    /\ pc = "create_dummy_data" =>
          LET rows == heap[heap[ret].elems[2]].rows
          IN (\A i \in DOMAIN rows : \A j \in DOMAIN rows :
                  (i # j /\ rows[i].lan = rows[j].lan) => rows[i].created_at # rows[j].created_at)
             =>
              /\ IsDeltaOf(rows, "time_since_last_contact", "created_at",
                           HasCustomer, SameCustomer)
              /\ IsDeltaOf(rows, "time_since_last_call", "created_at",
                           IsCall, SameCustomerAndType)
              /\ IsDeltaOf(rows, "time_since_last_sms", "created_at",
                           IsSms, SameCustomerAndType)
              /\ IsDeltaOf(rows, "time_since_last_disposition_event", "created_at",
                           IsFieldEvent, SameCustomerAndType)
    /\ pc = "time_since_last_due" =>
          LET rows == heap[arg[1]].rows
          IN ChronoInGroups(rows, "due_date", SameCustomer) =>
              IsDeltaOf(rows, "time_since_last_due", "due_date", HasCustomer, SameCustomer)

(***************************************************************************)
(* A caller that holds a due table and a disposition table and calls the   *)
(* functions on them, and add_streak_features on a window of the split.    *)
(***************************************************************************)
FrameDueTables ==
    {DataFrame(DueCols,
               [i \in DOMAIN rs |-> DueRow(Val(1), rs[i][1], rs[i][2], Val(0), Val(0))]) :
        rs \in SeqsUpTo({<<2023, 9, 5>>, <<2023, 10, 5>>} \X TenorTypes, MaxFrameRows)}

FrameDispositionTables ==
    {DataFrame(DispositionCols,
               [i \in DOMAIN rs |-> DispositionRow(Val(1), rs[i], "CALL")]) :
        rs \in SeqsUpTo({<<2023, 9, 5>>, NaT}, MaxFrameRows)}

InitFrame ==
    /\ heap \in {<<due, disp>> : due \in FrameDueTables, disp \in FrameDispositionTables}
    /\ pre = heap
    /\ pc = "start"
    /\ arg = <<>>
    /\ ret = None
    /\ local = None
    /\ exc = ""

\* the caller holds only its own two tables
Fresh == pc = "start" \/ (pc = "add_streak_features" /\ arg = <<1>>)

NextFrame ==
    \/ pc = "start" /\ AddStreakFeatures(1)
    \/ /\ Fresh
       /\ \E num_intervals \in 0..MaxFrameIntervals :
             TrainingSetSplit(<<2023, 9, 5>>, num_intervals, 1, 1, "due_date")
    \/ Fresh /\ MergeDispositionsToDues(1, 2)
    \/ Fresh /\ AggregateDispositionLan(2)
    \/ pc = "add_streak_features" /\ arg = <<1>> /\ AggregateBounceLan(1)
    \/ /\ pc = "training_set_split"
       /\ \E k \in Range(heap[ret].keys) : AddStreakFeatures(heap[ret].items[k])

SpecFrame == InitFrame /\ [][NextFrame]_vars

Functions == {"add_streak_features", "training_set_split", "merge_dispositions_to_dues",
              "aggregate_bounce_lan", "aggregate_disposition_lan"}

Untouched(ids) == \A id \in ids : heap[id] = pre[id]

\* C9 as stated: each of the five functions leaves the table passed in as it
\* was and delivers its result as a new table.
NoFunctionChangesItsInput ==
    pc \in Functions =>
        /\ Untouched(DOMAIN pre)
        /\ exc = "" => (ret # None /\ ret \notin DOMAIN pre)

\* C9 as the code has it: training_set_split, merge_dispositions_to_dues and the
\* two aggregators change no table that existed before the call, and what they
\* return is a new object; every window of training_set_split is a new table of
\* its own.  add_streak_features adds its two columns to the table passed in and
\* returns that same table, leaving its other columns and every other table,
\* the input of the split and the other windows included, as they were.
FrameOfEachFunction ==
    /\ pc \in Functions \ {"add_streak_features"} =>
          /\ Untouched(DOMAIN pre)
          /\ ret # None => ret \notin DOMAIN pre
    /\ pc = "training_set_split" =>
          LET items == heap[ret].items
          IN \A k \in DOMAIN items :
                /\ items[k] \in DOMAIN heap \ DOMAIN pre
                /\ \A j \in DOMAIN items : j # k => items[j] # items[k]
    /\ pc = "add_streak_features" =>
          LET df == arg[1]
          IN /\ ret = df
             /\ DOMAIN heap = DOMAIN pre
             /\ Untouched(DOMAIN pre \ {df})
             /\ heap[df].cols = pre[df].cols \cup {"current_pl_streak", "is_pl_streak_end"}
             /\ Len(heap[df].rows) = Len(pre[df].rows)
             /\ \A i \in DOMAIN pre[df].rows :
                   \A c \in pre[df].cols \ {"current_pl_streak", "is_pl_streak_end"} :
                       heap[df].rows[i][c] = pre[df].rows[i][c]

\* add_streak_features called on one of two windows that each hold a row: the
\* window has the two columns, the other window and the input do not
FrameWitness ==
    /\ pc = "add_streak_features"
    /\ arg[1] > 2
    /\ \E other \in DOMAIN heap :
          /\ other > 2 /\ other # arg[1]
          /\ "cols" \in DOMAIN heap[other]
          /\ Len(heap[other].rows) = 1
          /\ "is_pl_streak_end" \notin heap[other].cols
    /\ Len(heap[arg[1]].rows) = 1
    /\ "is_pl_streak_end" \in heap[arg[1]].cols
    /\ "is_pl_streak_end" \notin heap[1].cols
====
